---- MODULE Spec2Model ----
(***************************************************************************)
(* Model of the "vm repair" orchestration of azext_vm_repair/custom.py:    *)
(* create, restore, run and list_scripts, each a linear sequence of        *)
(* shell-outs inside try/except/finally, acting on a small cloud state.    *)
(***************************************************************************)
EXTENDS Integers, Sequences, FiniteSets, TLC

VARIABLES
    vmManaged,          \* cloud: disk mode of each source VM
    rgExists,           \* cloud: the repair resource group exists
    diskAt,             \* cloud: where the copied disk is
    op,                 \* the operation being invoked
    pc,                 \* position inside the operation
    args,               \* the arguments of the invocation
    parameters,         \* the parameters argument of run
    is_linux,           \* local is_linux
    is_managed,         \* local is_managed
    trace,              \* commands and calls issued by this invocation, in order
    command_succeeded,  \* local command_succeeded
    return_status,      \* local return_status
    return_message,     \* local return_message
    return_error_detail,\* local return_error_detail
    return_dict,        \* the mapping handed back to the caller
    outcome,            \* "none" while running, "returned" or "raised" at the end
    copy_result,        \* local copy_result of create (unmanaged path)
    repair_run_command, \* the remote-execution command built by run
    exc,                \* class of the exception an except clause caught
    failed_at,          \* the step of the try block that raised it
    disk_at_start,      \* where the copied disk was when this invocation started
    rg_at_start,        \* whether the repair group existed when this invocation started
    created_resources,  \* local created_resources of create
    stdout,             \* local stdout of run: the lines the script printed
    log_cutoff,         \* local log_cutoff of run
    telemetry,          \* the records this invocation sent to the telemetry sink
    last                \* summary of the invocation before this one

vars == <<vmManaged, rgExists, diskAt, op, pc, args, parameters, is_linux, is_managed, trace,
          command_succeeded, return_status, return_message, return_error_detail,
          return_dict, outcome, copy_result, repair_run_command, exc, failed_at, disk_at_start,
          rg_at_start, created_resources, stdout, log_cutoff, telemetry, last>>

cloud == <<vmManaged, rgExists, diskAt>>

----------------------------------------------------------------------------
\* Bounds of the model
MaxParams == 2
MaxLogs == 3

\* Program constants
STATUS_SUCCESS == "SUCCESS"
STATUS_ERROR == "ERROR"

VMs == {"vm1", "vm2"}
RunIds == {"42", "99"}

\* Sequences over S of length lo..hi
SeqsOf(S, lo, hi) == UNION {[1..n -> S] : n \in lo..hi}

\* Script parameters as the caller can write them: a bare value, a value
\* with a space inside or in front, name=value, name=value with a space
ParamStrings == {<<"a">>, <<"a", " ", "b">>, <<" ", "a">>, <<"n", "=", "v">>,
                 <<"n", "=", "v", " ", "w">>}
ParamLists == SeqsOf(ParamStrings, 0, MaxParams)

\* Lines the run driver can print: the level tag, then the message
RawLines == {<<"Log-Start", "t">>, <<"Log-End", "t", "]", "p">>, <<"Output", "o">>,
             <<"OUTPUT", "O">>, <<"Error", "e">>, <<"STATUS", "::", "SUCCESS">>}
Outputs == SeqsOf(RawLines, 0, MaxLogs)

Unset == <<"<unset>">>
NoDict == [k \in {} |-> ""]
NoCommand == [target |-> "", group |-> "", command_id |-> "", script_path |-> "", custom_file |-> "",
              with_params |-> FALSE, params |-> <<>>]
NoArgs == [vm |-> "vm1", yes |-> FALSE, disk_ok |-> TRUE, run_id |-> "42", custom_script_file |-> FALSE,
           run_on_repair |-> FALSE, repair_vm_id |-> "repair_vm", has_disk_sku |-> TRUE]
NoLast == [op |-> "none", args |-> NoArgs, status |-> "", detail |-> "",
           outcome |-> "none", diskBefore |-> "none"]

\* Error details
InterruptDetail == "Command interrupted by user input."
AzFaultDetail == "az: command failed"
AzStateDetail == "az: disk is not attached to the repair VM"
GenericMessage == "An unexpected error occurred. Try running again with the --debug flag to debug."
CatalogMessage == "Failed to fetch run script data from GitHub. Please check this repository is reachable: https://github.com/Azure/repair-script-library"

\* Outcomes of one shell-out: it exits 0, exits non-zero, or the user interrupts it
AzResults == {"ok", "fail", "interrupt"}

----------------------------------------------------------------------------
\* Helpers shared by the operations

Count(s, e) == Cardinality({i \in 1..Len(s) : s[i] = e})
Issued(e) == \E i \in 1..Len(trace) : trace[i] = e

\* Mutant: the classification carried over from the invocation before
UsesManagedDisk_Stale(vm) == is_managed

\* _uses_managed_disk(source_vm): the disk mode of the queried VM
UsesManagedDisk(vm) == vmManaged[vm]

\* _handle_command_error(return_error_detail, return_message)
HandleCommandError(detail, message) ==
    [status |-> STATUS_ERROR, message |-> message, error_message |-> detail]

\* What a failed or interrupted _call_az_command raises, and str() of it
AzKind(r) == IF r = "interrupt" THEN "KeyboardInterrupt" ELSE "AzCommandError"
AzDetail(r) == IF r = "interrupt" THEN InterruptDetail ELSE AzFaultDetail

\* S.strip(c) on a sequence of characters
RECURSIVE LStrip(_, _)
LStrip(s, c) == IF s # <<>> /\ Head(s) = c THEN LStrip(Tail(s), c) ELSE s
RECURSIVE RStrip(_, _)
RStrip(s, c) == IF s # <<>> /\ s[Len(s)] = c THEN RStrip(SubSeq(s, 1, Len(s) - 1), c) ELSE s
Strip(s, c) == RStrip(LStrip(s, c), c)

\* _track_command_telemetry and _track_run_command_telemetry: one record
\* with the operation's name and the three return variables
TrackCommandTelemetry(name, status, message, detail) ==
    [name |-> name, status |-> status, message |-> message, error_detail |-> detail]

\* Mutant: the copy is created in the repair group
CopyDiskGroup_Repair == "repair"

\* lines 107-108 and 148-152: the managed copy is created with
\* -g resource_group_name, the unmanaged one in the container of the source
\* blob: the copy lives with the source VM, outside the repair group
CopyDiskGroup == "source"

\* _clean_up_resources(group, confirm): best effort, swallows command errors;
\* c is what happens: the group is deleted, the delete fails, the user
\* declines the confirmation, or the user interrupts the call
CleanUpResults(confirm) == {"deleted", "failed", "interrupt"} \cup (IF confirm THEN {"declined"} ELSE {})
CleanUpEvent(confirm) == IF confirm THEN "cleanup(confirm=True)" ELSE "cleanup(confirm=False)"
CleanUpResources(c) ==
    IF c = "deleted"
    THEN /\ rgExists' = FALSE
         /\ diskAt' = (IF CopyDiskGroup = "repair" THEN "none"
                       ELSE IF diskAt = "repair" THEN "detached" ELSE diskAt)
         /\ UNCHANGED vmManaged
    ELSE UNCHANGED cloud

\* Summary of the invocation that just finished, kept when the next one
\* starts; the details are kept for restore only
Summary ==
    IF op = "restore"
    THEN [op |-> op, args |-> args, status |-> return_status, detail |-> return_error_detail,
          outcome |-> outcome, diskBefore |-> disk_at_start]
    ELSE [NoLast EXCEPT !.op = op]

----------------------------------------------------------------------------
\* Init: no invocation is running; the cloud holds two source VMs, one with
\* managed and one with unmanaged disks, and the repair group and copied disk
\* may or may not exist from earlier sessions

Init ==
    /\ vmManaged = [vm \in VMs |-> vm = "vm1"]
    /\ rgExists \in BOOLEAN
    /\ diskAt \in IF rgExists THEN {"none", "repair"} ELSE {"none"}
    /\ op = "none"
    /\ pc = "idle"
    /\ args = NoArgs
    /\ parameters = <<>>
    /\ is_linux = FALSE
    /\ is_managed = FALSE
    /\ trace = <<>>
    /\ command_succeeded = FALSE
    /\ return_status = ""
    /\ return_message = ""
    /\ return_error_detail = ""
    /\ return_dict = NoDict
    /\ outcome = "none"
    /\ copy_result = Unset
    /\ repair_run_command = NoCommand
    /\ exc = "none"
    /\ failed_at = "none"
    /\ disk_at_start = diskAt
    /\ rg_at_start = rgExists
    /\ created_resources = <<>>
    /\ stdout = <<>>
    /\ log_cutoff = TRUE
    /\ telemetry = <<>>
    /\ last = NoLast

\* The first lines of every operation: progress begin(), the return variables
Begin(o, a, p, withProgress) ==
    /\ pc = "idle"
    /\ op' = o
    /\ args' = a
    /\ parameters' = p
    /\ trace' = (IF withProgress THEN <<"begin">> ELSE <<>>)
    /\ disk_at_start' = diskAt
    /\ rg_at_start' = rgExists
    /\ UNCHANGED <<created_resources, stdout, log_cutoff, telemetry>>
    /\ UNCHANGED <<cloud, is_linux, is_managed, command_succeeded, return_status, return_message,
                   return_error_detail, return_dict, outcome, copy_result, repair_run_command,
                   exc, failed_at, last>>

\* The invocation is over: the caller has the result (or the exception) and
\* the process exits; only the cloud outlives it
Return ==
    /\ pc = "done"
    /\ pc' = "idle"
    /\ last' = Summary
    /\ op' = "none"
    /\ args' = NoArgs
    /\ parameters' = <<>>
    /\ is_linux' = FALSE
    /\ trace' = <<>>
    /\ command_succeeded' = FALSE
    /\ return_status' = ""
    /\ return_message' = ""
    /\ return_error_detail' = ""
    /\ return_dict' = NoDict
    /\ outcome' = "none"
    /\ copy_result' = Unset
    /\ repair_run_command' = NoCommand
    /\ exc' = "none"
    /\ failed_at' = "none"
    /\ created_resources' = <<>>
    /\ stdout' = <<>>
    /\ log_cutoff' = TRUE
    /\ telemetry' = <<>>
    /\ UNCHANGED <<cloud, is_managed, disk_at_start, rg_at_start>>

\* An exception leaves the function: nothing is returned
Propagate ==
    /\ pc' = "done"
    /\ outcome' = "raised"

----------------------------------------------------------------------------
\* create

CreateMessage(kind) ==
    CASE kind = "KeyboardInterrupt" -> "Command interrupted by user input. Cleaning up resources."
      [] kind = "AzCommandError" -> "Repair create failed. Cleaning up created resources."
      [] kind = "SkuNotAvailableError" -> "Please check if the current subscription can create more VM resources. Cleaning up created resources."
      [] kind = "UnmanagedDiskCopyError" -> "Repair create failed. Please try again at another time. Cleaning up created resources."
      [] kind = "WindowsOsNotAvailableError" -> "A compatible Windows OS image is not available at this time, please check subscription."
      [] OTHER -> GenericMessage

\* An exception raised inside the try block of create: the matching except
\* clause sets the detail and the message, control goes to the finally
CreateExcept(kind, detail) ==
    /\ exc' = kind
    /\ failed_at' = pc
    /\ return_error_detail' = detail
    /\ return_message' = CreateMessage(kind)
    /\ pc' = "c_finally"

\* One _call_az_command of the try block of create: the command is issued;
\* on success Effect happens and control moves on
CreateAz(here, cmd, next, Effect) ==
    /\ op = "create" /\ pc = here
    /\ trace' = Append(trace, cmd)
    /\ \E r \in AzResults :
          IF r = "ok"
          THEN /\ Effect
               /\ pc' = next
               /\ UNCHANGED <<exc, failed_at, return_error_detail, return_message>>
          ELSE /\ CreateExcept(AzKind(r), AzDetail(r))
               /\ UNCHANGED cloud
    /\ UNCHANGED <<op, args, parameters, is_linux, is_managed, command_succeeded, return_status,
                   return_dict, outcome, copy_result, repair_run_command, disk_at_start, last,
                   rg_at_start, created_resources, stdout, log_cutoff, telemetry>>

\* lines 47-58; has_disk_sku is whether the managed OS disk of the VM
\* carries its storage_account_type (a deallocated VM does not)
CreateStart ==
    /\ pc = "idle"
    /\ \E vm \in VMs, sku \in BOOLEAN :
          /\ vmManaged[vm] \/ sku
          /\ Begin("create", [NoArgs EXCEPT !.vm = vm, !.has_disk_sku = sku], <<>>, TRUE)
          /\ pc' = "c_get_vm"

\* lines 60-71, outside the try block
CreateGetVm ==
    /\ op = "create" /\ pc = "c_get_vm"
    /\ trace' = Append(trace, "get_vm")
    /\ \/ /\ is_linux' \in BOOLEAN
          /\ is_managed' = UsesManagedDisk(args.vm)
          /\ pc' = "c_image"
          /\ UNCHANGED outcome
       \/ /\ Propagate
          /\ UNCHANGED <<is_linux, is_managed>>
    /\ UNCHANGED <<cloud, op, args, parameters, exc, failed_at, command_succeeded, return_status, return_message,
                   return_error_detail, return_dict, copy_result, repair_run_command,
                   disk_at_start, last,
                   rg_at_start, created_resources, stdout, log_cutoff, telemetry>>

\* lines 75-79
CreateImage ==
    /\ op = "create" /\ pc = "c_image"
    /\ trace' = (IF is_linux THEN trace ELSE Append(trace, "_fetch_compatible_windows_os_urn"))
    /\ IF is_linux
       THEN pc' = "c_sku" /\ UNCHANGED <<exc, failed_at, return_error_detail, return_message>>
       ELSE \E r \in {"urn", "none", "fail", "interrupt"} :
              CASE r = "urn" -> pc' = "c_sku" /\ UNCHANGED <<exc, failed_at, return_error_detail, return_message>>
                [] r = "none" -> CreateExcept("WindowsOsNotAvailableError", "Compatible Windows OS image not available.")
                [] OTHER -> CreateExcept(AzKind(r), AzDetail(r))
    /\ UNCHANGED <<cloud, op, args, parameters, is_linux, is_managed, command_succeeded, return_status,
                   return_dict, outcome, copy_result, repair_run_command, disk_at_start, last,
                   rg_at_start, created_resources, stdout, log_cutoff, telemetry>>

\* lines 87-91
CreateSku ==
    /\ op = "create" /\ pc = "c_sku"
    /\ trace' = Append(trace, "_fetch_compatible_sku")
    /\ \E r \in {"sku", "none", "fail", "interrupt"} :
          CASE r = "sku" -> pc' = "c_group" /\ UNCHANGED <<exc, failed_at, return_error_detail, return_message>>
            [] r = "none" -> CreateExcept("SkuNotAvailableError", "Failed to find compatible VM size for source VM's OS disk within given region and subscription.")
            [] OTHER -> CreateExcept(AzKind(r), AzDetail(r))
    /\ UNCHANGED <<cloud, op, args, parameters, is_linux, is_managed, command_succeeded, return_status,
                   return_dict, outcome, copy_result, repair_run_command, disk_at_start, last,
                   rg_at_start, created_resources, stdout, log_cutoff, telemetry>>

\* lines 93-97, and the branch of line 100
CreateGroup ==
    CreateAz("c_group", "az group create", IF is_managed THEN "c_disk_sku" ELSE "c_validate",
             rgExists' = TRUE /\ UNCHANGED <<vmManaged, diskAt>>)

\* Mutant: the disk is always queried for its SKU
NeedsDiskSkuQuery_Always(a) == TRUE

\* line 104: if not disk_sku
NeedsDiskSkuQuery(a) == ~a.has_disk_sku

\* lines 103-106: the disk is queried only when the VM carries no SKU
CreateDiskSku ==
    IF NeedsDiskSkuQuery(args)
    THEN CreateAz("c_disk_sku", "az disk show", "c_validate", UNCHANGED cloud)
    ELSE /\ op = "create" /\ pc = "c_disk_sku"
         /\ pc' = "c_validate"
         /\ UNCHANGED <<cloud, op, args, parameters, is_linux, is_managed, trace, command_succeeded,
                        return_status, return_message, return_error_detail, return_dict, outcome,
                        copy_result, repair_run_command, exc, failed_at, disk_at_start, last,
                        rg_at_start, created_resources, stdout, log_cutoff, telemetry>>

\* lines 110-113 and 131-133
CreateValidate ==
    CreateAz("c_validate", "az vm create --validate", IF is_managed THEN "c_copy_disk" ELSE "c_conn_string",
             UNCHANGED cloud)

\* lines 107-108, 114-115
CreateCopyDisk ==
    CreateAz("c_copy_disk", "az disk create", "c_vm_create",
             diskAt' = "detached" /\ UNCHANGED <<vmManaged, rgExists>>)

\* lines 135-139
CreateConnString ==
    CreateAz("c_conn_string", "az storage account show-connection-string", "c_snapshot", UNCHANGED cloud)

\* lines 141-146
CreateSnapshot ==
    CreateAz("c_snapshot", "az storage blob snapshot", "c_copy_start", UNCHANGED cloud)

\* lines 148-154
CreateCopyStart ==
    CreateAz("c_copy_start", "az storage blob copy start", "c_vm_create",
             diskAt' = "detached" /\ UNCHANGED <<vmManaged, rgExists>>)

\* Mutant: the attach follows the VM create on both paths
AfterVmCreate_NoPoll(managed) == "c_attach"

\* lines 122-123 and 161-166: what follows the VM create
AfterVmCreate(managed) == IF managed THEN "c_attach" ELSE "c_copy_check"

\* lines 120-121 and 156-159
CreateVm ==
    CreateAz("c_vm_create", "az vm create", AfterVmCreate(is_managed), UNCHANGED cloud)

\* What "az storage blob show --query properties.copy.status -o tsv" can print
CopyStatusOutputs == {<<"success", "\n">>, <<"success">>, <<"pending", "\n">>,
                      <<"failed", "\n">>, <<"aborted", "\n">>, <<"\n">>}

\* Mutant: only a copy reported as failed stops create
CopySucceeded_OnlyFailed(result) == result # <<"failed">>

\* line 165
CopySucceeded(result) == result = <<"success">>

\* lines 161-166
CreateCopyCheck ==
    /\ op = "create" /\ pc = "c_copy_check"
    /\ trace' = Append(trace, "az storage blob show")
    /\ \/ \E out \in CopyStatusOutputs :
            /\ copy_result' = Strip(out, "\n")
            /\ IF CopySucceeded(copy_result')
               THEN pc' = "c_attach" /\ UNCHANGED <<exc, failed_at, return_error_detail, return_message>>
               ELSE CreateExcept("UnmanagedDiskCopyError", "Unmanaged disk copy failed.")
       \/ \E r \in {"fail", "interrupt"} :
            /\ CreateExcept(AzKind(r), AzDetail(r))
            /\ UNCHANGED copy_result
    /\ UNCHANGED <<cloud, op, args, parameters, is_linux, is_managed, command_succeeded, return_status,
                   return_dict, outcome, repair_run_command, disk_at_start, last,
                   rg_at_start, created_resources, stdout, log_cutoff, telemetry>>

\* lines 117-118, 122-123 and 168-172
CreateAttach ==
    CreateAz("c_attach", IF is_managed THEN "az vm disk attach" ELSE "az vm unmanaged-disk attach",
             "c_list", diskAt' = "repair" /\ UNCHANGED <<vmManaged, rgExists>>)

\* _list_resource_ids_in_rg(repair_group_name): the ids of the resources of
\* the repair group, the repair VM and what was created with it
ListResourceIdsInRg == <<"repair_vm_id", "repair_nic_id">>

\* lines 174-175: the flag is set, then the resources of the group are listed
CreateList ==
    /\ op = "create" /\ pc = "c_list"
    /\ command_succeeded' = TRUE
    /\ trace' = Append(trace, "az resource list")
    /\ \E r \in AzResults :
          IF r = "ok"
          THEN /\ created_resources' = ListResourceIdsInRg
               /\ pc' = "c_finally"
               /\ UNCHANGED <<exc, failed_at, return_error_detail, return_message>>
          ELSE CreateExcept(AzKind(r), AzDetail(r)) /\ UNCHANGED created_resources
    /\ UNCHANGED <<cloud, op, args, parameters, is_linux, is_managed, return_status,
                   return_dict, outcome, copy_result, repair_run_command, disk_at_start, last,
                   rg_at_start, stdout, log_cutoff, telemetry>>

\* Mutant: the status is stored before return_status is assigned
CreateSuccessDict_NoStatus ==
    [status |-> return_status,
     message |-> "Your repair VM has been created",
     repair_vm_name |-> "repair_vm",
     copied_disk_name |-> "copy_disk",
     copied_disk_uri |-> "copy_disk_id",
     repair_resouce_group |-> "repair_group",
     resource_tag |-> "resource_tag",
     created_resources |-> Append(created_resources, "copy_disk_id")]

\* lines 206-221
CreateSuccessDict ==
    [status |-> STATUS_SUCCESS,
     message |-> "Your repair VM has been created",
     repair_vm_name |-> "repair_vm",
     copied_disk_name |-> "copy_disk",
     copied_disk_uri |-> "copy_disk_id",
     repair_resouce_group |-> "repair_group",
     resource_tag |-> "resource_tag",
     created_resources |-> Append(created_resources, "copy_disk_id")]

\* Mutant: the failure cleanup asks for confirmation
CreateCleanUpConfirm_Ask == TRUE

\* line 204: confirm=False
CreateCleanUpConfirm == FALSE

\* lines 196-228: the finally clause, the failure block with its cleanup or
\* the success block, telemetry, return
CreateFinish ==
    /\ op = "create" /\ pc = "c_finally"
    /\ pc' = "done"
    /\ IF ~command_succeeded
       THEN /\ return_status' = STATUS_ERROR
            /\ \E c \in CleanUpResults(CreateCleanUpConfirm) :
                 /\ CleanUpResources(c)
                 /\ IF c = "interrupt"
                    THEN /\ trace' = trace \o <<"end", CleanUpEvent(CreateCleanUpConfirm)>>
                         /\ outcome' = "raised"
                         /\ UNCHANGED <<return_dict, telemetry>>
                    ELSE /\ trace' = trace \o <<"end", CleanUpEvent(CreateCleanUpConfirm), "telemetry">>
                         /\ return_dict' = HandleCommandError(return_error_detail, return_message)
                         /\ telemetry' = Append(telemetry, TrackCommandTelemetry("vm repair create",
                                              return_status', return_message, return_error_detail))
                         /\ outcome' = "returned"
       ELSE /\ return_status' = STATUS_SUCCESS
            /\ return_dict' = CreateSuccessDict
            /\ trace' = trace \o <<"end", "telemetry">>
            /\ telemetry' = Append(telemetry, TrackCommandTelemetry("vm repair create",
                                 return_status', return_message, return_error_detail))
            /\ outcome' = "returned"
            /\ UNCHANGED cloud
    /\ UNCHANGED <<op, args, parameters, is_linux, is_managed, exc, failed_at, command_succeeded, return_message,
                   return_error_detail, copy_result, repair_run_command, disk_at_start, last,
                   rg_at_start, created_resources, stdout, log_cutoff>>

----------------------------------------------------------------------------
\* restore

RestoreMessage(kind) ==
    CASE kind = "KeyboardInterrupt" -> "Command interrupted by user input. If the restore command fails at retry, please rerun the repair process from 'az vm repair create'."
      [] kind = "AzCommandError" -> "Repair restore failed. If the restore command fails at retry, please rerun the repair process from 'az vm repair create'."
      [] OTHER -> GenericMessage

RestoreExcept(kind, detail) ==
    /\ exc' = kind
    /\ failed_at' = pc
    /\ return_error_detail' = detail
    /\ return_message' = RestoreMessage(kind)
    /\ pc' = "r_finally"

\* One _call_az_command of the try block of restore; the command can only
\* succeed when the cloud state allows it (Possible)
RestoreAz(here, cmd, next, Possible, Effect) ==
    /\ op = "restore" /\ pc = here
    /\ trace' = Append(trace, cmd)
    /\ \E r \in AzResults :
          IF r = "ok"
          THEN IF Possible
               THEN /\ Effect
                    /\ pc' = next
                    /\ UNCHANGED <<exc, failed_at, return_error_detail, return_message>>
               ELSE /\ RestoreExcept("AzCommandError", AzStateDetail)
                    /\ UNCHANGED cloud
          ELSE /\ RestoreExcept(AzKind(r), AzDetail(r))
               /\ UNCHANGED cloud
    /\ UNCHANGED <<op, args, parameters, is_linux, is_managed, command_succeeded, return_status,
                   return_dict, outcome, copy_result, repair_run_command, disk_at_start, last,
                   rg_at_start, created_resources, stdout, log_cutoff, telemetry>>

RestoreStart ==
    pc = "idle" /\ \E vm \in VMs, y \in BOOLEAN, d \in BOOLEAN :
        /\ Begin("restore", [NoArgs EXCEPT !.vm = vm, !.yes = y, !.disk_ok = d], <<>>, TRUE)
        /\ pc' = "r_get_vm"

\* lines 244-253, outside the try block
RestoreGetVm ==
    /\ op = "restore" /\ pc = "r_get_vm"
    /\ trace' = Append(trace, "get_vm")
    /\ \/ /\ is_managed' = UsesManagedDisk(args.vm)
          /\ pc' = (IF is_managed' THEN "r_detach" ELSE "r_lookup")
          /\ UNCHANGED outcome
       \/ /\ Propagate
          /\ UNCHANGED is_managed
    /\ UNCHANGED <<cloud, op, args, parameters, is_linux, exc, failed_at, command_succeeded, return_status, return_message,
                   return_error_detail, return_dict, copy_result, repair_run_command,
                   disk_at_start, last,
                   rg_at_start, created_resources, stdout, log_cutoff, telemetry>>

\* Mutant: the first data disk is taken whatever its name
HasDataDisk_AnyName == diskAt = "repair"

\* line 275: some data disk of the repair VM has the given name
HasDataDisk == diskAt = "repair" /\ args.disk_ok

\* "az vm disk detach" and "az vm unmanaged-disk detach" exit non-zero
\* unless the named disk is attached to the repair VM
DetachPossible == diskAt = "repair" /\ args.disk_ok

\* Mutant: confirm=yes
RestoreConfirm_Inverted(yes) == yes

\* line 288: confirm=not yes
RestoreConfirm(yes) == ~yes

\* lines 270-275: the repair VM is queried and the disk looked up by name;
\* [..][0] raises IndexError when no data disk has that name
RestoreLookup ==
    /\ op = "restore" /\ pc = "r_lookup"
    /\ trace' = Append(trace, "get_vm(repair)")
    /\ \/ IF HasDataDisk
          THEN pc' = "r_detach" /\ UNCHANGED <<exc, failed_at, return_error_detail, return_message>>
          ELSE RestoreExcept("IndexError", "list index out of range")
       \/ RestoreExcept("KeyboardInterrupt", InterruptDetail)
    /\ UNCHANGED <<cloud, op, args, parameters, is_linux, is_managed, command_succeeded, return_status,
                   return_dict, outcome, copy_result, repair_run_command, disk_at_start, last,
                   rg_at_start, created_resources, stdout, log_cutoff, telemetry>>

\* lines 257-259, 265-266 and 277-278, 283-284
RestoreDetach ==
    RestoreAz("r_detach", IF is_managed THEN "az vm disk detach" ELSE "az vm unmanaged-disk detach",
              "r_attach", DetachPossible, diskAt' = "detached" /\ UNCHANGED <<vmManaged, rgExists>>)

\* lines 260-262, 267-268 and 279-282, 285-286
RestoreAttach ==
    RestoreAz("r_attach", IF is_managed THEN "az vm update --os-disk" ELSE "az vm update --set osDisk.vhd.uri",
              "r_cleanup", TRUE, diskAt' = "source" /\ UNCHANGED <<vmManaged, rgExists>>)

\* lines 287-289
RestoreCleanup ==
    /\ op = "restore" /\ pc = "r_cleanup"
    /\ trace' = Append(trace, CleanUpEvent(RestoreConfirm(args.yes)))
    /\ \E c \in CleanUpResults(RestoreConfirm(args.yes)) :
          /\ CleanUpResources(c)
          /\ IF c = "interrupt"
             THEN RestoreExcept("KeyboardInterrupt", InterruptDetail) /\ UNCHANGED command_succeeded
             ELSE /\ command_succeeded' = TRUE
                  /\ pc' = "r_finally"
                  /\ UNCHANGED <<exc, failed_at, return_error_detail, return_message>>
    /\ UNCHANGED <<op, args, parameters, is_linux, is_managed, return_status,
                   return_dict, outcome, copy_result, repair_run_command, disk_at_start, last,
                   rg_at_start, created_resources, stdout, log_cutoff, telemetry>>

\* lines 306-313
RestoreSuccessDict ==
    [status |-> STATUS_SUCCESS, message |-> "disk successfully attached as an OS disk"]

\* lines 299-320
RestoreFinish ==
    /\ op = "restore" /\ pc = "r_finally"
    /\ pc' = "done"
    /\ trace' = trace \o <<"end", "telemetry">>
    /\ IF ~command_succeeded
       THEN /\ return_status' = STATUS_ERROR
            /\ return_dict' = HandleCommandError(return_error_detail, return_message)
       ELSE /\ return_status' = STATUS_SUCCESS
            /\ return_dict' = RestoreSuccessDict
    /\ telemetry' = Append(telemetry, TrackCommandTelemetry("vm repair restore",
                         return_status', return_message, return_error_detail))
    /\ outcome' = "returned"
    /\ UNCHANGED <<cloud, op, args, parameters, is_linux, is_managed, exc, failed_at, command_succeeded, return_message,
                   return_error_detail, copy_result, repair_run_command, disk_at_start, last,
                   rg_at_start, created_resources, stdout, log_cutoff>>

----------------------------------------------------------------------------
\* run

\* Mutant: the catalog failures fall into the generic clause
RunMessage_GenericCatalog(kind) ==
    CASE kind = "KeyboardInterrupt" -> "Repair run failed. Command interrupted by user input."
      [] kind = "AzCommandError" -> "Repair run failed."
      [] OTHER -> GenericMessage

\* lines 442-456: the message of each except clause
RunMessage(kind) ==
    CASE kind = "KeyboardInterrupt" -> "Repair run failed. Command interrupted by user input."
      [] kind = "AzCommandError" -> "Repair run failed."
      [] kind = "RequestException" -> CatalogMessage
      [] kind = "RunScriptNotFoundForIdError" -> "Repair run failed. Run ID not found."
      [] OTHER -> GenericMessage

RunExcept(kind, detail) ==
    /\ exc' = kind
    /\ failed_at' = pc
    /\ return_error_detail' = detail
    /\ return_message' = RunMessage(kind)
    /\ pc' = "run_finally"

\* The remote script catalog: run id -> path of the script
Catalog == [id \in {"42"} |-> "scripts/diag.sh"]

\* The part of a parameter before and after its first "="
HasEq(s) == \E i \in 1..Len(s) : s[i] = "="
FirstEq(s) == CHOOSE i \in 1..Len(s) : s[i] = "=" /\ \A j \in 1..(i-1) : s[j] # "="
BeforeEq(s) == SubSeq(s, 1, FirstEq(s) - 1)
AfterEq(s) == SubSeq(s, FirstEq(s) + 1, Len(s))

\* _process_bash_parameters: the values, each followed by a space, stripped
RECURSIVE BashJoin(_)
BashJoin(ps) ==
    IF ps = <<>> THEN <<>>
    ELSE (IF HasEq(Head(ps)) THEN AfterEq(Head(ps)) ELSE Head(ps)) \o <<" ">> \o BashJoin(Tail(ps))
ProcessBashParameters(ps) == Strip(BashJoin(ps), " ")

\* _process_ps_parameters: "-name value " for name=value, stripped
RECURSIVE PsJoin(_)
PsJoin(ps) ==
    IF ps = <<>> THEN <<>>
    ELSE (IF HasEq(Head(ps))
          THEN <<"-">> \o BeforeEq(Head(ps)) \o <<" ">> \o AfterEq(Head(ps))
          ELSE Head(ps)) \o <<" ">> \o PsJoin(Tail(ps))
ProcessPsParameters(ps) == Strip(PsJoin(ps), " ")

\* Mutant: only the first space is replaced
RECURSIVE ReplaceSpaces_First(_)
ReplaceSpaces_First(s) ==
    IF s = <<>> THEN <<>>
    ELSE IF Head(s) = " " THEN <<"%", "2", "0">> \o Tail(s)
    ELSE <<Head(s)>> \o ReplaceSpaces_First(Tail(s))

\* line 379: param_string.replace(' ', '%20')
RECURSIVE ReplaceSpaces(_)
ReplaceSpaces(s) ==
    IF s = <<>> THEN <<>>
    ELSE (IF Head(s) = " " THEN <<"%", "2", "0">> ELSE <<Head(s)>>) \o ReplaceSpaces(Tail(s))

\* The argument validation that runs before run: without run_on_repair
\* the script runs on the source VM itself, so repair_vm_id names the source VM
ValidateRunRepairVmId(vm, onRepair) == IF onRepair THEN "repair_vm" ELSE vm

\* lines 323-338
RunStart(P) ==
    /\ pc = "idle"
    /\ \E vm \in VMs, id \in RunIds, custom \in BOOLEAN, onRepair \in BOOLEAN, ps \in P :
          /\ Begin("run", [NoArgs EXCEPT !.vm = vm, !.run_id = id, !.custom_script_file = custom,
                                         !.run_on_repair = onRepair,
                                         !.repair_vm_id = ValidateRunRepairVmId(vm, onRepair)], ps, TRUE)
          /\ pc' = "run_get_vm"

\* parse_resource_id: the name and the resource group inside a resource id
ParseResourceId(id) ==
    [name |-> id, resource_group |-> IF id = "repair_vm" THEN "repair_group" ELSE "source_group"]

\* Mutant: the command always names the source VM
RunCommandVm_Source(a) == [name |-> a.vm, resource_group |-> "source_group"]

\* lines 354-361: the command names the VM of repair_vm_id
RunCommandVm(a) == ParseResourceId(a.repair_vm_id)

\* lines 340-361, inside the try block
RunGetVm ==
    /\ op = "run" /\ pc = "run_get_vm"
    /\ trace' = Append(trace, "get_vm")
    /\ \/ /\ is_linux' \in BOOLEAN
          /\ repair_run_command' = [NoCommand EXCEPT
                 !.target = RunCommandVm(args).name,
                 !.group = RunCommandVm(args).resource_group,
                 !.command_id = IF is_linux' THEN "RunShellScript" ELSE "RunPowerShellScript"]
          /\ pc' = "run_script"
          /\ UNCHANGED <<exc, failed_at, return_error_detail, return_message>>
       \/ /\ \/ RunExcept("Exception", "get_vm failed")
             \/ RunExcept("KeyboardInterrupt", InterruptDetail)
          /\ UNCHANGED <<is_linux, repair_run_command>>
    /\ UNCHANGED <<cloud, op, args, parameters, is_managed, command_succeeded, return_status,
                   return_dict, outcome, copy_result, disk_at_start, last,
                   rg_at_start, created_resources, stdout, log_cutoff, telemetry>>

\* Mutant: the path is passed without the leading "./"
RunScriptPath_NoPrefix(id) == <<Catalog[id]>>

\* line 367: script_path="./{repair_script}"
RunScriptPath(id) == <<"./", Catalog[id]>>

\* lines 363-371
RunScript ==
    /\ op = "run" /\ pc = "run_script"
    /\ IF ~args.custom_script_file
       THEN /\ trace' = Append(trace, "_fetch_run_script_path")
            /\ \E r \in {"ok", "request_error", "interrupt"} :
                 CASE r = "ok" ->
                        IF args.run_id \in DOMAIN Catalog
                        THEN /\ repair_run_command' = [repair_run_command EXCEPT
                                    !.script_path = RunScriptPath(args.run_id)]
                             /\ pc' = "run_params"
                             /\ UNCHANGED <<exc, failed_at, return_error_detail, return_message>>
                        ELSE /\ RunExcept("RunScriptNotFoundForIdError", "Run-script not found for id")
                             /\ UNCHANGED repair_run_command
                   [] r = "request_error" ->
                        RunExcept("RequestException", "request failed") /\ UNCHANGED repair_run_command
                   [] OTHER ->
                        RunExcept("KeyboardInterrupt", InterruptDetail) /\ UNCHANGED repair_run_command
       ELSE /\ repair_run_command' = [repair_run_command EXCEPT
                   !.custom_file = "custom_script_file", !.script_path = <<"no-op">>]
            /\ pc' = "run_params"
            /\ UNCHANGED <<trace, exc, failed_at, return_error_detail, return_message>>
    /\ UNCHANGED <<cloud, op, args, parameters, is_linux, is_managed, command_succeeded,
                   return_status, return_dict, outcome, copy_result, disk_at_start, last,
                   rg_at_start, created_resources, stdout, log_cutoff, telemetry>>

\* lines 372-380
RunParamString(ps) ==
    ReplaceSpaces(IF is_linux THEN ProcessBashParameters(ps) ELSE ProcessPsParameters(ps))

RunParams ==
    /\ op = "run" /\ pc = "run_params"
    /\ repair_run_command' =
          IF parameters # <<>>
          THEN [repair_run_command EXCEPT !.with_params = TRUE, !.params = RunParamString(parameters)]
          ELSE repair_run_command
    /\ pc' = "run_invoke"
    /\ UNCHANGED <<cloud, op, args, parameters, is_linux, is_managed, trace, command_succeeded,
                   return_status, return_message, return_error_detail, return_dict, outcome,
                   copy_result, exc, failed_at, disk_at_start, last,
                   rg_at_start, created_resources, stdout, log_cutoff, telemetry>>

\* lines 381-388
RunInvoke ==
    /\ op = "run" /\ pc = "run_invoke"
    /\ trace' = Append(trace, "az vm run-command invoke")
    /\ \E r \in AzResults :
          IF r = "ok"
          THEN pc' = "run_parse" /\ UNCHANGED <<exc, failed_at, return_error_detail, return_message>>
          ELSE RunExcept(AzKind(r), AzDetail(r))
    /\ UNCHANGED <<cloud, op, args, parameters, is_linux, is_managed, command_succeeded,
                   return_status, return_dict, outcome, copy_result, repair_run_command,
                   disk_at_start, last,
                   rg_at_start, created_resources, stdout, log_cutoff, telemetry>>

\* _parse_run_script_raw_logs: a line "[level] message" of stdout becomes a
\* record with its level tag and its message
ParseRawLogString(line) == [level |-> Head(line), message |-> Tail(line)]
ParseRunScriptRawLogs(out) == [i \in 1..Len(out) |-> ParseRawLogString(out[i])]

\* _check_script_succeeded: the success marker is somewhere in stdout
SuccessMarker == <<"STATUS", "::", "SUCCESS">>
CheckScriptSucceeded(out) == \E i \in 1..Len(out) : out[i] = SuccessMarker

\* str.lower() on the level tags
Lower(level) ==
    CASE level \in {"Output", "OUTPUT", "output"} -> "output"
      [] level \in {"Error", "ERROR", "error"} -> "error"
      [] level = "Log-Start" -> "log-start"
      [] level = "Log-End" -> "log-end"
      [] level = "STATUS" -> "status"
      [] OTHER -> level

\* Mutant: only the first record is examined
LogCutoff_FirstOnly(logs) == logs = <<>> \/ logs[1].level # "Log-Start"

\* lines 406-410: cut off unless some record has level Log-Start
LogCutoff(logs) == ~\E i \in 1..Len(logs) : logs[i].level = "Log-Start"

\* message.split(']')
RECURSIVE SplitBracket(_)
SplitBracket(m) ==
    IF \E i \in 1..Len(m) : m[i] = "]"
    THEN LET k == CHOOSE i \in 1..Len(m) : m[i] = "]" /\ \A j \in 1..(i-1) : m[j] # "]"
         IN <<SubSeq(m, 1, k - 1)>> \o SplitBracket(SubSeq(m, k + 1, Len(m)))
    ELSE <<m>>

\* lines 407-414: the path of the last Log-End record that splits in two
RECURSIVE LogFullPath(_, _)
LogFullPath(logs, path) ==
    IF logs = <<>> THEN path
    ELSE LogFullPath(Tail(logs),
             IF Head(logs).level = "Log-End" /\ Len(SplitBracket(Head(logs).message)) = 2
             THEN SplitBracket(Head(logs).message)[2] ELSE path)

\* '\n'.join(messages)
RECURSIVE JoinNL(_)
JoinNL(ms) ==
    IF ms = <<>> THEN <<>>
    ELSE IF Len(ms) = 1 THEN Head(ms)
    ELSE Head(ms) \o <<"\n">> \o JoinNL(Tail(ms))

\* Mutant: the level is compared without lower()
LevelIs_CaseSensitive(log, level) == log.level = level

\* lines 423 and 429: log['level'].lower() == level
LevelIs(log, level) == Lower(log.level) = level

\* lines 423 and 429: [log['message'] for log in logs if log['level'].lower() == level]
RECURSIVE MessagesOfLevel(_, _)
MessagesOfLevel(logs, level) ==
    IF logs = <<>> THEN <<>>
    ELSE (IF LevelIs(Head(logs), level) THEN <<Head(logs).message>> ELSE <<>>)
         \o MessagesOfLevel(Tail(logs), level)

\* lines 418-440: the result of a script that ran
RunResultDict(succeeded, out, logs) ==
    [status |-> IF succeeded THEN STATUS_SUCCESS ELSE STATUS_ERROR,
     message |-> IF succeeded THEN "Script completed without error." ELSE "Script returned with possible errors.",
     logs |-> out,
     log_full_path |-> LogFullPath(logs, <<>>),
     output |-> JoinNL(MessagesOfLevel(logs, IF succeeded THEN "output" ELSE "error")),
     vm_name |-> repair_run_command.target,
     resouce_group |-> repair_run_command.group]

\* lines 389-441: stdout is taken out of the command's output (json.loads
\* and the splits can raise), parsed into log records, and the script's own
\* verdict becomes the status
RunParse(L) ==
    /\ op = "run" /\ pc = "run_parse"
    /\ \/ \E out \in L :
            LET succeeded == CheckScriptSucceeded(out)
                logs == ParseRunScriptRawLogs(out)
            IN /\ stdout' = out
               /\ log_cutoff' = LogCutoff(logs)
               /\ return_status' = (IF succeeded THEN STATUS_SUCCESS ELSE STATUS_ERROR)
               /\ return_message' = RunResultDict(succeeded, out, logs).message
               /\ return_dict' = RunResultDict(succeeded, out, logs)
               /\ command_succeeded' = TRUE
               /\ pc' = "run_finally"
               /\ UNCHANGED <<exc, failed_at, return_error_detail>>
       \/ /\ RunExcept("Exception", "malformed output")
          /\ UNCHANGED <<return_status, return_dict, command_succeeded, stdout, log_cutoff>>
    /\ UNCHANGED <<cloud, op, args, parameters, is_linux, is_managed, trace, outcome, copy_result,
                   repair_run_command, disk_at_start, last,
                   rg_at_start, created_resources, telemetry>>

\* lines 457-472
RunFinish ==
    /\ op = "run" /\ pc = "run_finally"
    /\ pc' = "done"
    /\ trace' = trace \o <<"end", "telemetry">>
    /\ IF ~command_succeeded
       THEN /\ return_status' = STATUS_ERROR
            /\ return_dict' = HandleCommandError(return_error_detail, return_message)
       ELSE UNCHANGED <<return_status, return_dict>>
    /\ telemetry' = Append(telemetry, TrackCommandTelemetry("vm repair run",
                         return_status', return_message, return_error_detail))
    /\ outcome' = "returned"
    /\ UNCHANGED <<cloud, op, args, parameters, is_linux, is_managed, exc, failed_at, command_succeeded,
                   return_message, return_error_detail, copy_result, repair_run_command,
                   disk_at_start, last,
                   rg_at_start, created_resources, stdout, log_cutoff>>

----------------------------------------------------------------------------
\* list_scripts

ListMessage(kind) == IF kind = "RequestException" THEN CatalogMessage ELSE GenericMessage

\* lines 475-486
ListStart ==
    Begin("list_scripts", NoArgs, <<>>, FALSE) /\ pc' = "l_fetch"

\* line 505
ListSetStatus(dict, status) == [k \in DOMAIN dict \cup {"status"} |-> IF k = "status" THEN status ELSE dict[k]]

\* lines 488-510: no clause catches a KeyboardInterrupt here
ListScripts ==
    /\ op = "list_scripts" /\ pc = "l_fetch"
    /\ pc' = "done"
    /\ \E r \in {"ok", "RequestException", "Exception", "interrupt"} :
          CASE r = "ok" ->
                 /\ command_succeeded' = TRUE
                 /\ return_status' = STATUS_SUCCESS
                 /\ return_dict' = ListSetStatus([map |-> "run_map"], STATUS_SUCCESS)
                 /\ trace' = Append(trace, "telemetry")
                 /\ telemetry' = Append(telemetry, TrackCommandTelemetry("vm repair run-list",
                                      return_status', return_message, return_error_detail))
                 /\ outcome' = "returned"
                 /\ UNCHANGED <<exc, failed_at, return_error_detail, return_message>>
            [] r = "interrupt" ->
                 /\ outcome' = "raised"
                 /\ UNCHANGED <<exc, failed_at, command_succeeded, return_status, return_dict, trace,
                                return_error_detail, return_message, telemetry>>
            [] OTHER ->
                 /\ exc' = r
                 /\ failed_at' = pc
                 /\ return_error_detail' = "fetch failed"
                 /\ return_message' = ListMessage(r)
                 /\ return_status' = STATUS_ERROR
                 /\ return_dict' = ListSetStatus(HandleCommandError(return_error_detail', return_message'), STATUS_ERROR)
                 /\ trace' = Append(trace, "telemetry")
                 /\ telemetry' = Append(telemetry, TrackCommandTelemetry("vm repair run-list",
                                      return_status', return_message', return_error_detail'))
                 /\ outcome' = "returned"
                 /\ UNCHANGED command_succeeded
    /\ UNCHANGED <<cloud, op, args, parameters, is_linux, is_managed, copy_result,
                   repair_run_command, disk_at_start, last,
                   rg_at_start, created_resources, stdout, log_cutoff>>

----------------------------------------------------------------------------
\* The specifications

\* Parameter lists of run in the specification of all four operations
FewParamLists == {<<>>, << <<"a", " ">> >>}

\* Outputs of the script in the specifications that are not about its logs
FewOutputs == {<< <<"Log-Start", "t">>, <<"Output", "o">>, <<"STATUS", "::", "SUCCESS">> >>,
               << <<"Error", "e">> >>}

Next ==
    \/ CreateStart \/ CreateGetVm \/ CreateImage \/ CreateSku \/ CreateGroup \/ CreateDiskSku
    \/ CreateValidate \/ CreateCopyDisk \/ CreateConnString \/ CreateSnapshot \/ CreateCopyStart
    \/ CreateVm \/ CreateCopyCheck \/ CreateAttach \/ CreateList \/ CreateFinish
    \/ RestoreStart \/ RestoreGetVm \/ RestoreLookup \/ RestoreDetach \/ RestoreAttach
    \/ RestoreCleanup \/ RestoreFinish
    \/ RunStart(FewParamLists) \/ RunGetVm \/ RunScript \/ RunParams \/ RunInvoke \/ RunParse(FewOutputs) \/ RunFinish
    \/ ListStart \/ ListScripts
    \/ Return

Spec == Init /\ [][Next]_vars

\* run alone, against an existing repair session, over all parameter lists
\* within the bounds
InitRun == Init /\ rgExists /\ diskAt = "repair"

NextRun ==
    \/ RunStart(ParamLists) \/ RunGetVm \/ RunScript \/ RunParams \/ RunInvoke
    \/ RunParse(FewOutputs) \/ RunFinish
    \/ Return

SpecRun == InitRun /\ [][NextRun]_vars

\* run alone, over all outputs of the script within the bounds
NextLogs ==
    \/ RunStart(FewParamLists) \/ RunGetVm \/ RunScript \/ RunParams \/ RunInvoke
    \/ RunParse(Outputs) \/ RunFinish
    \/ Return

SpecLogs == InitRun /\ [][NextLogs]_vars

----------------------------------------------------------------------------
\* Properties

Finished == pc = "done"
Returned == pc = "done" /\ outcome = "returned"
CleanUpCount == Count(trace, CleanUpEvent(TRUE)) + Count(trace, CleanUpEvent(FALSE))
ResultStatusIs(st) == outcome = "returned" => ("status" \in DOMAIN return_dict /\ return_dict.status = st)

\* C1: every invocation of create, restore, run and list_scripts that returns
\* hands back a mapping with the key 'status' whose value is SUCCESS or ERROR,
\* never the initial empty string.
C1_StatusAlwaysPresent ==
    Returned => /\ "status" \in DOMAIN return_dict
                /\ return_dict.status \in {STATUS_SUCCESS, STATUS_ERROR}

\* C1 witness: a create that succeeded and one step later a result with SUCCESS
C1_Witness ==
    /\ Returned /\ op = "create" /\ command_succeeded
    /\ "status" \in DOMAIN return_dict /\ return_dict.status = STATUS_SUCCESS

\* C2: no exception ever propagates out of create, restore or run: whatever
\* step fails, the operation returns a structured result.
C2_NoExceptionPropagates ==
    op \in {"create", "restore", "run"} => outcome # "raised"

\* C3: in create on the managed path, when the disk-copy command fails,
\* cleanup of the repair group is invoked exactly once and without
\* confirmation, the status is ERROR, and neither the repair-VM create nor
\* the disk attach is issued.
C3_CopyDiskFailure ==
    (op = "create" /\ failed_at = "c_copy_disk") =>
        /\ ~Issued("az vm create")
        /\ ~Issued("az vm disk attach")
        /\ Finished => /\ Count(trace, CleanUpEvent(FALSE)) = 1
                       /\ Count(trace, CleanUpEvent(TRUE)) = 0
                       /\ return_status = STATUS_ERROR
                       /\ ResultStatusIs(STATUS_ERROR)

C3_Witness ==
    /\ Returned /\ op = "create" /\ is_managed /\ failed_at = "c_copy_disk"
    /\ exc = "AzCommandError" /\ Issued("az disk create") /\ Issued(CleanUpEvent(FALSE))

\* C4: in create, a failure of any step of the main sequence, the final
\* enumeration of the created resources included, leads to status ERROR and
\* exactly one cleanup with confirm=False; on SUCCESS cleanup is never invoked.
C4_AnyFailureCleansUp ==
    (op = "create" /\ Returned) =>
        IF failed_at # "none"
        THEN /\ return_dict.status = STATUS_ERROR
             /\ Count(trace, CleanUpEvent(FALSE)) = 1
             /\ Count(trace, CleanUpEvent(TRUE)) = 0
        ELSE /\ return_dict.status = STATUS_SUCCESS
             /\ CleanUpCount = 0

\* C5: in create on the unmanaged path, a copy-status poll that returns
\* anything but "success" raises UnmanagedDiskCopyError: the status is ERROR,
\* the unmanaged-disk attach is never issued and cleanup runs, although the
\* repair VM was created.
C5_CopyNotSuccess ==
    (op = "create" /\ copy_result \notin {Unset, <<"success">>}) =>
        /\ exc = "UnmanagedDiskCopyError"
        /\ Issued("az vm create")
        /\ ~Issued("az vm unmanaged-disk attach")
        /\ Finished => /\ Count(trace, CleanUpEvent(FALSE)) = 1
                       /\ return_status = STATUS_ERROR
                       /\ ResultStatusIs(STATUS_ERROR)

C5_Witness ==
    /\ Returned /\ op = "create" /\ copy_result = <<"pending">>
    /\ Issued("az vm create") /\ Issued(CleanUpEvent(FALSE))
    /\ return_dict.status = STATUS_ERROR

\* The commands of the managed and of the unmanaged family
ManagedCommands == {"az disk show", "az disk create", "az vm disk attach", "az vm disk detach",
                    "az vm update --os-disk"}
UnmanagedCommands == {"az storage account show-connection-string", "az storage blob snapshot",
                      "az storage blob copy start", "az storage blob show",
                      "az vm unmanaged-disk attach", "az vm unmanaged-disk detach",
                      "az vm update --set osDisk.vhd.uri"}

\* C6: create and restore classify the source VM once, from the VM they
\* query, and every command of the invocation belongs to the family of that
\* VM's disk mode.
C6_OneClassification ==
    op \in {"create", "restore"} =>
        /\ Count(trace, "get_vm") <= 1
        /\ \A i \in 1..Len(trace) :
              trace[i] \notin (IF vmManaged[args.vm] THEN UnmanagedCommands ELSE ManagedCommands)

\* C6 witness: a restore of the unmanaged VM right after the managed one
C6_Witness ==
    /\ op = "restore" /\ ~vmManaged[args.vm] /\ last.op = "restore" /\ vmManaged[last.args.vm]
    /\ Issued("az vm unmanaged-disk detach") /\ Issued("az vm update --set osDisk.vhd.uri")

DetachCommands == {"az vm disk detach", "az vm unmanaged-disk detach"}
AttachCommands == {"az vm update --os-disk", "az vm update --set osDisk.vhd.uri"}
IndexOf(S) == CHOOSE i \in 1..Len(trace) : trace[i] \in S
IssuedAny(S) == \E i \in 1..Len(trace) : trace[i] \in S

\* C7: restore invokes cleanup only after detach and attach both succeeded,
\* in the order detach, attach, cleanup, asking for confirmation exactly when
\* yes is false; if detach or attach fails or the user interrupts before,
\* cleanup is never invoked and the status is ERROR; SUCCESS implies that
\* detach, attach and cleanup all completed.
C7_RestoreCleanupOrder ==
    op = "restore" =>
        /\ CleanUpCount <= 1
        /\ CleanUpCount = 1 =>
              /\ Issued(CleanUpEvent(~args.yes))
              /\ IssuedAny(DetachCommands) /\ IssuedAny(AttachCommands)
              /\ IndexOf(DetachCommands) < IndexOf(AttachCommands)
              /\ IndexOf(AttachCommands) < IndexOf({CleanUpEvent(TRUE), CleanUpEvent(FALSE)})
              /\ failed_at \in {"none", "r_cleanup"}
              /\ diskAt = "source"
        /\ failed_at \in {"r_lookup", "r_detach", "r_attach"} =>
              /\ CleanUpCount = 0
              /\ Finished => return_status = STATUS_ERROR /\ ResultStatusIs(STATUS_ERROR)
        /\ (Finished /\ return_status = STATUS_SUCCESS) =>
              /\ failed_at = "none"
              /\ IssuedAny(DetachCommands) /\ IssuedAny(AttachCommands) /\ CleanUpCount = 1

C7_Witness ==
    /\ Returned /\ op = "restore" /\ return_dict.status = STATUS_SUCCESS
    /\ args.yes /\ Issued(CleanUpEvent(FALSE)) /\ ~rgExists

\* Details of failures that come from outside: a command that exits
\* non-zero although the cloud state allows it, a user interrupt
TransientDetails == {AzFaultDetail, InterruptDetail}

\* C8: a failed restore is resumable: after a restore of an attached repair
\* disk failed at some step, the same restore invoked again, and not hit by
\* a new failure from outside, completes with SUCCESS.
C8_RestoreResumable ==
    ( /\ op = "restore" /\ Returned
      /\ last.op = "restore" /\ last.args = args /\ last.args.disk_ok
      /\ last.outcome = "returned" /\ last.status = STATUS_ERROR
      /\ last.diskBefore = "repair"
      /\ return_error_detail \notin TransientDetails )
    => return_dict.status = STATUS_SUCCESS

\* C9: in restore on the unmanaged path, when no data disk of the repair VM
\* has the given name, the result is ERROR with the generic message and no
\* detach, attach or cleanup is issued: the cloud is left as it was.
C9_UnknownDiskName ==
    ( /\ op = "restore" /\ Returned /\ ~vmManaged[args.vm]
      /\ ~(disk_at_start = "repair" /\ args.disk_ok)
      /\ exc # "KeyboardInterrupt" )
    => /\ return_dict.status = STATUS_ERROR
       /\ return_dict.message = GenericMessage
       /\ ~IssuedAny(DetachCommands) /\ ~IssuedAny(AttachCommands) /\ CleanUpCount = 0
       /\ diskAt = disk_at_start

C9_Witness ==
    /\ op = "restore" /\ Returned /\ ~is_managed /\ ~args.disk_ok /\ disk_at_start = "repair"
    /\ exc = "IndexError" /\ return_dict.message = GenericMessage /\ diskAt = "repair"

HasSpace(s) == \E i \in 1..Len(s) : s[i] = " "

\* C10: in run, whenever parameters are supplied, the parameter string put
\* into the remote-execution command holds no space character, for the Linux
\* and for the Windows serialization.
C10_NoSpaceInParams ==
    op = "run" =>
        /\ repair_run_command.with_params => ~HasSpace(repair_run_command.params)
        /\ (parameters # <<>> /\ Issued("az vm run-command invoke")) => repair_run_command.with_params

\* C10 witness: a Windows run whose serialization had two spaces to replace
C10_Witness ==
    /\ op = "run" /\ ~is_linux /\ Issued("az vm run-command invoke")
    /\ repair_run_command.with_params
    /\ Count(repair_run_command.params, "%") >= 2


\* C11: in run the truncation flag is true exactly when no parsed record of
\* stdout has the level Log-Start, whatever the order and number of the
\* other records.
C11_CutoffIffNoLogStart ==
    (op = "run" /\ command_succeeded) =>
        (log_cutoff <=> \A i \in 1..Len(stdout) : stdout[i][1] # "Log-Start")

\* C11 witness: Log-Start is there but not first, after a Log-End
C11_Witness ==
    /\ op = "run" /\ command_succeeded /\ ~log_cutoff /\ Len(stdout) = 3
    /\ stdout[1][1] = "Log-End" /\ stdout[3][1] = "Log-Start"

\* C12: script resolution in run is exclusive: without a custom script file
\* the catalog is asked for run_id and the command carries
\* script_path="./<catalog path>"; with one the catalog is never fetched,
\* run_id is ignored and the command carries the file and script_path=no-op.
C12_ScriptResolution ==
    (op = "run" /\ Issued("az vm run-command invoke")) =>
        IF args.custom_script_file
        THEN /\ ~Issued("_fetch_run_script_path")
             /\ repair_run_command.script_path = <<"no-op">>
             /\ repair_run_command.custom_file = "custom_script_file"
        ELSE /\ Count(trace, "_fetch_run_script_path") = 1
             /\ args.run_id = "42"
             /\ repair_run_command.script_path = <<"./", "scripts/diag.sh">>
             /\ repair_run_command.custom_file = ""

C12_Witness ==
    /\ op = "run" /\ Issued("az vm run-command invoke") /\ ~args.custom_script_file
    /\ args.run_id = "42" /\ repair_run_command.script_path = <<"./", "scripts/diag.sh">>

\* Every shell command of the model
ShellCommands == ManagedCommands \cup UnmanagedCommands \cup
                 {"az group create", "az vm create --validate", "az vm create",
                  "az resource list", "az vm run-command invoke"}
ShellCount == Cardinality({i \in 1..Len(trace) : trace[i] \in ShellCommands})

\* C13: run is non-destructive: it issues at most one shell command, the
\* run-command invoke, never cleans up and leaves the cloud as it was; when
\* the catalog fetch fails or the run id is unknown no shell command is
\* issued and the result is ERROR with the message of that failure.
C13_RunNonDestructive ==
    op = "run" =>
        /\ ShellCount <= 1
        /\ \A i \in 1..Len(trace) : trace[i] \in ShellCommands => trace[i] = "az vm run-command invoke"
        /\ CleanUpCount = 0
        /\ rgExists = rg_at_start /\ diskAt = disk_at_start
        /\ exc \in {"RequestException", "RunScriptNotFoundForIdError"} =>
              /\ ShellCount = 0
              /\ Finished => /\ Returned
                             /\ return_dict.status = STATUS_ERROR
                             /\ return_dict.message =
                                   (IF exc = "RequestException" THEN CatalogMessage
                                    ELSE "Repair run failed. Run ID not found.")

C13_Witness ==
    /\ op = "run" /\ Returned /\ exc = "RequestException" /\ ShellCount = 0
    /\ return_dict.message = CatalogMessage

\* The messages of the lines of stdout whose tag is one of the given ones
RECURSIVE TaggedMessages(_, _)
TaggedMessages(out, tags) ==
    IF out = <<>> THEN <<>>
    ELSE (IF Head(out)[1] \in tags THEN <<Tail(Head(out))>> ELSE <<>>) \o TaggedMessages(Tail(out), tags)

\* C14: when the remote command returned and its output parsed, the status
\* is SUCCESS exactly when the success marker is in stdout; 'output' is the
\* newline-join of the records of level 'output' (in any case) on SUCCESS
\* and of level 'error' otherwise; 'logs' is the whole stdout.
C14_StatusAndOutput ==
    (op = "run" /\ command_succeeded /\ Returned) =>
        /\ return_dict.status = STATUS_SUCCESS <=> (\E i \in 1..Len(stdout) : stdout[i] = SuccessMarker)
        /\ return_dict.status \in {STATUS_SUCCESS, STATUS_ERROR}
        /\ return_dict.output =
              JoinNL(TaggedMessages(stdout, IF return_dict.status = STATUS_SUCCESS
                                            THEN {"Output", "OUTPUT", "output"}
                                            ELSE {"Error", "ERROR", "error"}))
        /\ return_dict.logs = stdout

\* C14 witness: a successful script with two output records of different case
C14_Witness ==
    /\ op = "run" /\ Returned /\ command_succeeded /\ return_dict.status = STATUS_SUCCESS
    /\ return_dict.output = <<"o", "\n", "O">>

C16_SuccessListsResources ==
    (op = "create" /\ Returned /\ return_dict.status = STATUS_SUCCESS) =>
        /\ return_dict.created_resources = ListResourceIdsInRg \o <<"copy_disk_id">>
        /\ {"repair_vm_name", "copied_disk_name", "copied_disk_uri", "repair_resouce_group",
            "resource_tag"} \subseteq DOMAIN return_dict
        /\ IssuedAny({"az vm disk attach", "az vm unmanaged-disk attach"})
        /\ failed_at # "c_attach"

\* The steps of create that the trace records between get_vm and the finally
CreateSteps == ShellCommands \cup {"_fetch_compatible_windows_os_urn", "_fetch_compatible_sku"}
CreateTrace == SelectSeq(trace, LAMBDA e : e \in CreateSteps)
IsPrefix(a, b) == Len(a) <= Len(b) /\ a = SubSeq(b, 1, Len(a))

\* What each step of the try block of create issues
CreateStepCommand(step) ==
    CASE step = "c_image" -> "_fetch_compatible_windows_os_urn"
      [] step = "c_sku" -> "_fetch_compatible_sku"
      [] step = "c_group" -> "az group create"
      [] step = "c_disk_sku" -> "az disk show"
      [] step = "c_validate" -> "az vm create --validate"
      [] step = "c_copy_disk" -> "az disk create"
      [] step = "c_conn_string" -> "az storage account show-connection-string"
      [] step = "c_snapshot" -> "az storage blob snapshot"
      [] step = "c_copy_start" -> "az storage blob copy start"
      [] step = "c_vm_create" -> "az vm create"
      [] step = "c_copy_check" -> "az storage blob show"
      [] step = "c_attach" -> (IF is_managed THEN "az vm disk attach" ELSE "az vm unmanaged-disk attach")
      [] OTHER -> "az resource list"

\* Nothing is issued after a step of the try block failed
StopsAtFailure ==
    exc # "none" => (CreateTrace # <<>> /\ CreateTrace[Len(CreateTrace)] = CreateStepCommand(failed_at))

ImageOrder == IF is_linux THEN <<>> ELSE <<"_fetch_compatible_windows_os_urn">>
ManagedOrder ==
    ImageOrder \o <<"_fetch_compatible_sku", "az group create">>
    \o (IF args.has_disk_sku THEN <<>> ELSE <<"az disk show">>)
    \o <<"az vm create --validate", "az disk create", "az vm create", "az vm disk attach",
         "az resource list">>
UnmanagedOrder ==
    ImageOrder \o <<"_fetch_compatible_sku", "az group create", "az vm create --validate",
                    "az storage account show-connection-string", "az storage blob snapshot",
                    "az storage blob copy start", "az vm create", "az storage blob show",
                    "az vm unmanaged-disk attach", "az resource list">>

\* C17: on the managed path create issues, in this order and each only
\* after the earlier ones succeeded: image and size lookup, resource-group
\* create, --validate, disk copy, repair-VM create, disk attach; the disk is
\* asked for its SKU only when the source VM carries none.
C17_ManagedOrder ==
    (op = "create" /\ is_managed) =>
        /\ IsPrefix(CreateTrace, ManagedOrder)
        /\ StopsAtFailure
        /\ Issued("az disk show") => ~args.has_disk_sku

\* C17 witness: a deallocated managed VM, all five commands issued
C17_Witness ==
    /\ op = "create" /\ is_managed /\ ~args.has_disk_sku /\ Returned /\ exc = "none"
    /\ CreateTrace = ManagedOrder

\* C18: on the unmanaged path create issues, in this order: validation,
\* connection string, snapshot, copy start, repair-VM create, copy-status
\* poll, unmanaged-disk attach; the status is polled at most once and the
\* attach follows only a poll that returned "success".
C18_UnmanagedOrder ==
    (op = "create" /\ ~is_managed) =>
        /\ IsPrefix(CreateTrace, UnmanagedOrder)
        /\ StopsAtFailure
        /\ Count(trace, "az storage blob show") <= 1
        /\ Issued("az vm unmanaged-disk attach") =>
              (Count(trace, "az storage blob show") = 1 /\ copy_result = <<"success">>)

C18_Witness ==
    /\ op = "create" /\ ~is_managed /\ Returned /\ exc = "none"
    /\ CreateTrace = UnmanagedOrder /\ copy_result = <<"success">>

\* C19 (as claimed): the failure cleanup of create deletes only the repair
\* group this invocation created: a group that existed when the invocation
\* started still exists when it is over.
C19_PreexistingGroupKept == (op = "create" /\ rg_at_start) => rgExists

\* The copy step of create succeeded: the copy command was issued and is
\* not where create failed
CopyStepDone ==
    /\ IssuedAny({"az disk create", "az storage blob copy start"})
    /\ failed_at \notin {"c_copy_disk", "c_copy_start"}

\* C20: the failure cleanup of create covers the repair group only: when
\* create fails after the copy step succeeded the copy is still there after
\* the cleanup, and the ERROR result does not report it.
C20_CopyOutlivesCleanup ==
    (op = "create" /\ Finished /\ ~command_succeeded /\ CopyStepDone) =>
        /\ diskAt # "none"
        /\ Returned => /\ return_dict.status = STATUS_ERROR
                       /\ DOMAIN return_dict = {"status", "message", "error_message"}

\* C20 witness: the VM create fails after the disk copy, the cleanup
\* deletes the repair group
C20_Witness ==
    /\ op = "create" /\ Returned /\ failed_at = "c_vm_create" /\ disk_at_start = "none"
    /\ ~rgExists /\ Issued(CleanUpEvent(FALSE)) /\ diskAt = "detached"

\* The exceptions the except clauses name, and the messages they set
ExceptionKinds == {"KeyboardInterrupt", "AzCommandError", "SkuNotAvailableError",
                   "UnmanagedDiskCopyError", "WindowsOsNotAvailableError", "RequestException",
                   "RunScriptNotFoundForIdError", "Exception"}
FailureMessages ==
    {CreateMessage(k) : k \in ExceptionKinds} \cup {RestoreMessage(k) : k \in ExceptionKinds}
    \cup {RunMessage(k) : k \in ExceptionKinds} \cup {ListMessage(k) : k \in ExceptionKinds}

\* C21 (as claimed): every invocation of create, restore, run and
\* list_scripts that is over has sent exactly one telemetry record, as its
\* last action; the status of the record is the status of the returned
\* mapping, and a record with status SUCCESS has an empty error detail and
\* no failure message.
C21_OneTelemetryRecord ==
    Finished =>
        /\ Len(telemetry) = 1
        /\ Count(trace, "telemetry") = 1
        /\ trace[Len(trace)] = "telemetry"
        /\ Returned /\ telemetry[1].status = return_dict.status
        /\ telemetry[1].status = STATUS_SUCCESS =>
              (telemetry[1].error_detail = "" /\ telemetry[1].message \notin FailureMessages)

\* C22 (as claimed): in create, restore and run every invocation that
\* called begin() has called end() exactly once when it is over, and end()
\* comes before the failure cleanup of create and before telemetry.
C22_ProgressBalanced ==
    (op \in {"create", "restore", "run"} /\ Issued("begin")) =>
        /\ Count(trace, "end") <= 1
        /\ Finished => Count(trace, "end") = 1
        /\ \A i \in 1..Len(trace) :
              (trace[i] = "telemetry" \/ (op = "create" /\ trace[i] = CleanUpEvent(FALSE)))
                 => \E j \in 1..(i - 1) : trace[j] = "end"

====
